---- MODULE Spec2Model ----
(***************************************************************************)
(* Simple Fragmentation Protocol (SFP) of libcsp: csp_sfp_send and         *)
(* csp_sfp_recv_fp of src/src/csp_sfp.c, with the connection between them. *)
(* A packet is a record [frag, data]: frag is the CSP_FFRAG bit of its id  *)
(* flags, data the bytes data[0 .. length-1], so packet->length is         *)
(* Len(data).                                                              *)
(***************************************************************************)
EXTENDS Integers, Sequences, FiniteSets, TLC

\* ------------------------------------------------------------------ bounds
\* size of the data area of a packet (a build option of libcsp)
CSP_BUFFER_SIZE == 10
\* the small totalsize arguments are 0 .. MaxTotal
MaxTotal == 3
\* the large totalsize arguments are 2^16 .. 2^16 + MaxWrap
MaxWrap == 0
\* offsets and total sizes of the trailers a faulty channel delivers
MaxAdvField == 1

\* the uint32_t values of SpecWide are 2^32 - 1 - k for k in 0 .. MaxBelowTop
\* and the values 0 .. MaxBelowTop
MaxBelowTop == 1

\* --------------------------------------------------------------- constants
\* sizeof(sfp_header_t): two packed uint32_t
SFP_HEADER_SIZE == 8

\* uint16_t holds the values below U16.  The uint32_t values of the model
\* (totalsize, count, data_offset, the header fields) all stay far below
\* 2^32, where uint32_t arithmetic is plain arithmetic (see TypeOK).
U16 == 2 ^ 16
MaxU32Reached == 2 ^ 17

NULL == [null |-> TRUE]

CSP_ERR_NONE == "CSP_ERR_NONE"
CSP_ERR_NOMEM == "CSP_ERR_NOMEM"
CSP_ERR_INVAL == "CSP_ERR_INVAL"
CSP_ERR_TIMEDOUT == "CSP_ERR_TIMEDOUT"
CSP_ERR_SFP == "CSP_ERR_SFP"
NoReturn == "running"

\* fragments one call of csp_sfp_send may hand over in the model
MaxSent == MaxTotal

Min(a, b) == IF a < b THEN a ELSE b

\* ------------------------------------------------------------ byte helpers
\* the four bytes, in memory order, that htobe32(x) stores
htobe32(x) ==
    << (x \div 16777216) % 256, (x \div 65536) % 256, (x \div 256) % 256, x % 256 >>

\* the value be32toh reads from four bytes in memory order
be32toh(b) ==
    b[1] * 16777216 + b[2] * 65536 + b[3] * 256 + b[4]

\* conversion of a 32-bit value to uint16_t
ToU16(x) == x % U16

\* ------------------------------------------------------- the user's storage
\* the byte the read capability supplies for storage offset i, user->data = sd
SrcByte(sd, i) == (sd * (i + 1)) % 256

\* the bytes user->read copies for (offset, size)
ReadData(sd, offset, size) == [i \in 1..size |-> SrcByte(sd, offset + i - 1)]

\* the values user->read may return for a request of size bytes
ReadRets(size) == {size, (size + 1) % U16}

\* the values user->write may return for a call with size bytes
WriteRets(size) == {size, (size + 1) % U16}

\* ------------------------------------------------------- SFP header (trailer)
csp_sfp_header_add_swapped(p, count, totalsize) ==
    [p EXCEPT !.data = @ \o htobe32(totalsize) \o htobe32(count)]

\* csp_sfp_header_add followed by the two stores of lines 85-86
csp_sfp_header_add(p, count, totalsize) ==
    [p EXCEPT !.data = @ \o htobe32(count) \o htobe32(totalsize)]

\* the two fields stored in the last 8 bytes of the data
TrailerOffset(p) ==
    be32toh(SubSeq(p.data, Len(p.data) - 7, Len(p.data) - 4))

TrailerTotal(p) ==
    be32toh(SubSeq(p.data, Len(p.data) - 3, Len(p.data)))

csp_sfp_header_remove_unchecked(p) ==
    IF ~p.frag
    THEN [hdr |-> NULL, pkt |-> p]
    ELSE IF Len(p.data) < SFP_HEADER_SIZE
    THEN [hdr |-> NULL, pkt |-> p]
    ELSE [hdr |-> [offset |-> TrailerOffset(p), totalsize |-> TrailerTotal(p)],
          pkt |-> [p EXCEPT !.data = SubSeq(@, 1, Len(@) - SFP_HEADER_SIZE)]]

\* csp_sfp_header_remove: hdr = NULL or the decoded header, pkt the packet
\* as the call leaves it (length reduced once the two early tests passed)
csp_sfp_header_remove(p) ==
    IF ~p.frag
    THEN [hdr |-> NULL, pkt |-> p]
    ELSE IF Len(p.data) < SFP_HEADER_SIZE
    THEN [hdr |-> NULL, pkt |-> p]
    ELSE LET h == [offset |-> TrailerOffset(p), totalsize |-> TrailerTotal(p)]
             q == [p EXCEPT !.data = SubSeq(@, 1, Len(@) - SFP_HEADER_SIZE)]
         IN  IF h.offset > h.totalsize
             THEN [hdr |-> NULL, pkt |-> q]
             ELSE [hdr |-> h, pkt |-> q]

\* ---------------------------------------------------------- csp_sfp_send
MtuInvalid_off(mtu) ==
    (mtu = 0) \/ (mtu > (CSP_BUFFER_SIZE - SFP_HEADER_SIZE) + 1)

\* line 52
MtuInvalid(mtu) ==
    (mtu = 0) \/ (mtu > (CSP_BUFFER_SIZE - SFP_HEADER_SIZE))

\* lines 68-71: uint16_t size = totalsize - count; if (size > mtu) size = mtu
SendSize(totalsize, count, mtu) ==
    LET size == ToU16(totalsize - count)
    IN  IF size > mtu THEN mtu ELSE size

SendLoopCond_inclusive(count, totalsize) == count <= totalsize

\* line 57: while (count < totalsize)
SendLoopCond(count, totalsize) == count < totalsize

ReadMismatch_never(size, got) == FALSE

\* line 74
ReadMismatch(size, got) == size # got

\* ------------------------------------------------------- csp_sfp_recv_fp
ConsistencyFail_nooffset(hdr, length, data_offset) ==
    \/ length = 0
    \/ length > (CSP_BUFFER_SIZE - SFP_HEADER_SIZE)

ConsistencyFail_nozero(hdr, length, data_offset) ==
    \/ hdr.offset # data_offset
    \/ length > (CSP_BUFFER_SIZE - SFP_HEADER_SIZE)

\* line 130
ConsistencyFail(hdr, length, data_offset) ==
    \/ hdr.offset # data_offset
    \/ length = 0
    \/ length > (CSP_BUFFER_SIZE - SFP_HEADER_SIZE)

ExpectedTotal_latest(datasize, hdr_totalsize) == hdr_totalsize

\* lines 139-140: if (datasize == 0) datasize = sfp_header->totalsize
ExpectedTotal(datasize, hdr_totalsize) ==
    IF datasize = 0 THEN hdr_totalsize ELSE datasize

DatasizeInvalid_never(datasize) == FALSE

\* line 141
DatasizeInvalid(datasize) == datasize = 0

WriteMismatch_never(length, got) == FALSE

\* line 150
WriteMismatch(length, got) == length # got

InitialError_sfp == CSP_ERR_SFP

\* line 115
InitialError == CSP_ERR_TIMEDOUT

\* ---------------------------------------------- uint32_t over its full range
\* A uint32_t value v as the pair << v \div 2^16, v % 2^16 >> of its 16-bit
\* halves, for the transfers whose sizes are close to 2^32.
Zero32 == << 0, 0 >>
Top32 == << U16 - 1, U16 - 1 >>

\* the value 2^32 - 1 - k, for k < 2^16
BelowTop32(k) == << U16 - 1, U16 - 1 - k >>

\* the value k, for k < 2^16
Small32(k) == << 0, k >>

\* a + n in uint32_t arithmetic, for 0 <= n < 2^16
Add32(a, n) ==
    LET lo == a[2] + n
    IN  << (a[1] + (lo \div U16)) % U16, lo % U16 >>

Gt32(a, b) == (a[1] > b[1]) \/ (a[1] = b[1] /\ a[2] > b[2])
Ge32(a, b) == (a = b) \/ Gt32(a, b)

\* the four bytes, in memory order, that htobe32 stores for a
htobe32_wide(a) ==
    << a[1] \div 256, a[1] % 256, a[2] \div 256, a[2] % 256 >>

\* the value be32toh reads from four bytes in memory order
be32toh_wide(b) ==
    << b[1] * 256 + b[2], b[3] * 256 + b[4] >>

TrailerOffset32(p) ==
    be32toh_wide(SubSeq(p.data, Len(p.data) - 7, Len(p.data) - 4))

TrailerTotal32(p) ==
    be32toh_wide(SubSeq(p.data, Len(p.data) - 3, Len(p.data)))

\* csp_sfp_header_remove over the full range
csp_sfp_header_remove32(p) ==
    IF ~p.frag
    THEN [hdr |-> NULL, pkt |-> p]
    ELSE IF Len(p.data) < SFP_HEADER_SIZE
    THEN [hdr |-> NULL, pkt |-> p]
    ELSE LET h == [offset |-> TrailerOffset32(p), totalsize |-> TrailerTotal32(p)]
             q == [p EXCEPT !.data = SubSeq(@, 1, Len(@) - SFP_HEADER_SIZE)]
         IN  IF Gt32(h.offset, h.totalsize)
             THEN [hdr |-> NULL, pkt |-> q]
             ELSE [hdr |-> h, pkt |-> q]

\* lines 139-140 and the tests == 0 over the full range
IsZero32(a) == a = Zero32

ExpectedTotal32(ds, hdr_totalsize) ==
    IF IsZero32(ds) THEN hdr_totalsize ELSE ds

\* the operations of the loop body of recv in either representation
HeaderRemove(wide, p) ==
    IF wide THEN csp_sfp_header_remove32(p) ELSE csp_sfp_header_remove(p)

IsZero(wide, a) == IF wide THEN IsZero32(a) ELSE DatasizeInvalid(a)

SetExpectedTotal(wide, ds, hdr_totalsize) ==
    IF wide THEN ExpectedTotal32(ds, hdr_totalsize) ELSE ExpectedTotal(ds, hdr_totalsize)

\* line 158: data_offset += packet->length
AddU32(wide, a, n) == IF wide THEN Add32(a, n) ELSE a + n

\* line 160: data_offset >= datasize
GeU32(wide, a, b) == IF wide THEN Ge32(a, b) ELSE a >= b

\* ----------------------------------------------------------------- inputs
TotalSizes == (0..MaxTotal) \cup {U16 + k : k \in 0..MaxWrap}
Mtus == 0..((CSP_BUFFER_SIZE - SFP_HEADER_SIZE) + 1)
Seeds == {3}

\* the outcomes of csp_send(conn, packet): the connection accepts the packet,
\* or it fails and the packet is lost; once it has failed it stays failed
CspSendResults(failed) == IF failed THEN {FALSE} ELSE {TRUE, FALSE}

\* payload byte i of a packet that does not come from csp_sfp_send
AdvByte(i) == 238 + i

\* the packets a faulty channel (or a caller) may deliver: fragments with
\* any payload length the buffer allows and any small trailer, fragments
\* without the flag, and packets too short for a trailer
AdvFrag(frag, len, offset, totalsize) ==
    [frag |-> frag,
     data |-> [i \in 1..len |-> AdvByte(i)] \o htobe32(offset) \o htobe32(totalsize)]

AdvPackets ==
    {AdvFrag(TRUE, len, o, t) :
        len \in 0..(CSP_BUFFER_SIZE - SFP_HEADER_SIZE),
        o \in 0..MaxAdvField, t \in 0..MaxAdvField}
    \cup {AdvFrag(FALSE, 1, 0, t) : t \in 0..1}
    \cup {[frag |-> TRUE, data |-> [i \in 1..len |-> AdvByte(i)]] : len \in {0, 7}}

\* ------------------------------------------------------------------ state
VARIABLES
    s_pc,            \* csp_sfp_send: "idle", "loop", "done"
    totalsize,       \* argument totalsize
    mtu,             \* argument mtu
    seed,            \* user->data of the read capability
    count,           \* local count
    s_ret,           \* return value of csp_sfp_send
    rlog,            \* calls of user->read: [offset, size, ret]
    sent,            \* packets handed to csp_send, in order
    idout_frag,      \* CSP_FFRAG in conn->idout.flags
    s_got,           \* successful csp_buffer_get calls of send
    s_freed,         \* csp_buffer_free calls of send
    send_failed,     \* a csp_send of this call failed
    chan,            \* packets in flight on the connection
    faulty,          \* the channel lost a packet or delivered a foreign one
    r_pc,            \* csp_sfp_recv_fp: "idle", "read_first", "body", "read_next", "done"
    packet,          \* the packet recv holds, or NULL
    datasize,        \* local datasize
    data_offset,     \* local data_offset
    error,           \* local error
    r_ret,           \* return value of csp_sfp_recv_fp
    return_datasize, \* *return_datasize
    wlog,            \* calls of user->write: [offset, data, totalsize, ret]
    r_last,          \* the packet of the last loop iteration, as obtained
    r_null,          \* the last csp_read returned NULL
    r_reads,         \* csp_read calls of recv
    r_got,           \* packets recv obtained
    r_freed,         \* csp_buffer_free calls of recv
    r_after          \* recv was called after send had returned

svars == << s_pc, totalsize, mtu, seed, count, s_ret, rlog, sent, idout_frag,
            s_got, s_freed, send_failed >>
rvars == << r_pc, packet, datasize, data_offset, error, r_ret,
            return_datasize, wlog, r_last, r_null, r_reads, r_got, r_freed,
            r_after >>
vars == << svars, chan, faulty, rvars >>

Init ==
    /\ s_pc = "idle"
    /\ totalsize = 0
    /\ mtu = 0
    /\ seed = 1
    /\ count = 0
    /\ s_ret = NoReturn
    /\ rlog = << >>
    /\ sent = << >>
    /\ idout_frag = FALSE
    /\ s_got = 0
    /\ s_freed = 0
    /\ send_failed = FALSE
    /\ chan = << >>
    /\ faulty = FALSE
    /\ r_pc = "idle"
    /\ packet = NULL
    /\ datasize = 0
    /\ data_offset = 0
    /\ error = InitialError
    /\ r_ret = NoReturn
    /\ return_datasize = 0
    /\ wlog = << >>
    /\ r_last = NULL
    /\ r_null = FALSE
    /\ r_reads = 0
    /\ r_got = 0
    /\ r_freed = 0
    /\ r_after = FALSE

\* ---------------------------------------------------------- csp_sfp_send
\* lines 51-56: the call, the mtu test and count = 0
SendCall ==
    /\ s_pc = "idle"
    /\ \E t \in TotalSizes, m \in Mtus, sd \in Seeds :
        /\ totalsize' = t
        /\ mtu' = m
        /\ seed' = sd
        /\ IF MtuInvalid(m)
           THEN /\ s_pc' = "done"
                /\ s_ret' = CSP_ERR_INVAL
           ELSE /\ s_pc' = "loop"
                /\ s_ret' = s_ret
    /\ count' = 0
    /\ UNCHANGED << rlog, sent, idout_frag, s_got, s_freed, send_failed, chan,
                    faulty, rvars >>

SendReadFail_leak ==
    /\ s_freed' = s_freed
    /\ s_pc' = "done"
    /\ s_ret' = CSP_ERR_SFP

\* lines 75-76: csp_buffer_free(packet); return CSP_ERR_SFP
SendReadFail ==
    /\ s_freed' = s_freed + 1
    /\ s_pc' = "done"
    /\ s_ret' = CSP_ERR_SFP

\* lines 57-93: one iteration of the while loop
SendIter ==
    /\ s_pc = "loop"
    /\ SendLoopCond(count, totalsize)
    /\ Len(sent) < MaxSent
    /\ \E allocated \in BOOLEAN :
        IF ~allocated
        THEN \* lines 62-65
             /\ s_pc' = "done"
             /\ s_ret' = CSP_ERR_NOMEM
             /\ UNCHANGED << count, rlog, sent, idout_frag, s_got, s_freed,
                             send_failed, chan, faulty >>
        ELSE LET size == SendSize(totalsize, count, mtu) IN
             \E got \in ReadRets(size) :
                /\ s_got' = s_got + 1
                /\ rlog' = Append(rlog, [offset |-> count, size |-> size, ret |-> got])
                /\ IF ReadMismatch(size, got)
                   THEN \* lines 75-76
                        /\ SendReadFail
                        /\ UNCHANGED << count, sent, idout_frag, send_failed, chan,
                                        faulty >>
                   ELSE \* lines 78-92
                        LET p == csp_sfp_header_add(
                                    [frag |-> TRUE, data |-> ReadData(seed, count, size)],
                                    count, totalsize)
                        IN  /\ idout_frag' = TRUE
                            /\ sent' = Append(sent, p)
                            /\ \E accepted \in CspSendResults(send_failed) :
                                  IF accepted
                                  THEN /\ chan' = Append(chan, p)
                                       /\ UNCHANGED << send_failed, faulty >>
                                  ELSE /\ send_failed' = TRUE
                                       /\ faulty' = TRUE
                                       /\ UNCHANGED chan
                            /\ count' = count + size
                            /\ UNCHANGED << s_pc, s_ret, s_freed >>
    /\ UNCHANGED << totalsize, mtu, seed, rvars >>

\* lines 57 and 95: the loop condition fails
SendReturn ==
    /\ s_pc = "loop"
    /\ ~SendLoopCond(count, totalsize)
    /\ s_pc' = "done"
    /\ s_ret' = CSP_ERR_NONE
    /\ UNCHANGED << totalsize, mtu, seed, count, rlog, sent, idout_frag, s_got,
                    s_freed, send_failed, chan, faulty, rvars >>

\* ------------------------------------------------------- csp_sfp_recv_fp
\* lines 98-104, 109-115: the call; first_packet is NULL, a packet the
\* caller read from the connection, or a packet from elsewhere
RecvCall ==
    /\ r_pc = "idle"
    /\ return_datasize' = 0
    /\ r_after' = (s_pc = "done")
    /\ \/ /\ r_pc' = "read_first"
          /\ UNCHANGED << packet, r_last, r_got, chan, faulty, datasize,
                          data_offset, error >>
       \/ /\ \/ /\ chan # << >>
                /\ packet' = Head(chan)
                /\ chan' = Tail(chan)
                /\ UNCHANGED faulty
             \/ /\ \E p \in AdvPackets : packet' = p
                /\ faulty' = TRUE
                /\ UNCHANGED chan
          /\ r_last' = packet'
          /\ r_got' = r_got + 1
          /\ datasize' = 0
          /\ data_offset' = 0
          /\ error' = InitialError
          /\ r_pc' = "body"
    /\ UNCHANGED << svars, r_ret, wlog, r_null, r_reads, r_freed >>

\* csp_read(conn, timeout) at lines 105 and 179: the next packet of the
\* connection, NULL when none is there, or what a faulty channel delivers
\* (one of foreign)
RecvReadG(foreign) ==
    /\ r_pc \in {"read_first", "read_next"}
    /\ r_reads' = r_reads + 1
    /\ \/ /\ chan # << >>
          /\ packet' = Head(chan)
          /\ chan' = Tail(chan)
          /\ UNCHANGED faulty
       \/ /\ chan = << >>
          /\ packet' = NULL
          /\ UNCHANGED << chan, faulty >>
       \/ /\ \E p \in foreign : packet' = p
          /\ faulty' = TRUE
          /\ UNCHANGED chan
    /\ r_null' = (packet' = NULL)
    /\ IF packet' = NULL
       THEN \* lines 106-108, and lines 179-182
            /\ r_pc' = "done"
            /\ r_ret' = IF r_pc = "read_first" THEN CSP_ERR_TIMEDOUT ELSE error
            /\ UNCHANGED << r_last, r_got, datasize, data_offset, error >>
       ELSE /\ r_pc' = "body"
            /\ r_last' = packet'
            /\ r_got' = r_got + 1
            /\ UNCHANGED r_ret
            /\ IF r_pc = "read_first"
               THEN \* lines 113-115
                    /\ datasize' = 0
                    /\ data_offset' = 0
                    /\ error' = InitialError
               ELSE UNCHANGED << datasize, data_offset, error >>
    /\ UNCHANGED << svars, return_datasize, wlog, r_freed, r_after >>

RecvFail_leak ==
    /\ packet' = packet
    /\ r_freed' = r_freed
    /\ error' = CSP_ERR_SFP
    /\ r_pc' = "done"
    /\ r_ret' = CSP_ERR_SFP
    /\ UNCHANGED return_datasize

RecvRead == RecvReadG(AdvPackets)

\* the exit through the label error with error = CSP_ERR_SFP, after
\* csp_buffer_free(packet)
RecvFail ==
    /\ packet' = NULL
    /\ r_freed' = r_freed + 1
    /\ error' = CSP_ERR_SFP
    /\ r_pc' = "done"
    /\ r_ret' = CSP_ERR_SFP
    /\ UNCHANGED return_datasize

\* lines 117-177: the body of the do-while loop for the packet held; wide
\* tells whether the uint32_t values are pairs (the full range) or plain
\* integers
RecvBodyG(wide) ==
    /\ r_pc = "body"
    /\ LET rem == HeaderRemove(wide, packet)
           hdr == rem.hdr
           pkt == rem.pkt
           length == Len(pkt.data)
       IN
       IF hdr = NULL
       THEN \* lines 119-125
            /\ RecvFail
            /\ UNCHANGED << datasize, data_offset, wlog >>
       ELSE IF ConsistencyFail(hdr, length, data_offset)
       THEN \* lines 130-136
            /\ RecvFail
            /\ UNCHANGED << datasize, data_offset, wlog >>
       ELSE LET ds == SetExpectedTotal(wide, datasize, hdr.totalsize) IN
            IF IsZero(wide, datasize) /\ IsZero(wide, ds)
            THEN \* lines 141-146
                 /\ RecvFail
                 /\ datasize' = ds
                 /\ UNCHANGED << data_offset, wlog >>
            ELSE \E got \in WriteRets(length) :
                 /\ datasize' = ds
                 /\ wlog' = Append(wlog, [offset |-> data_offset, data |-> pkt.data,
                                          totalsize |-> hdr.totalsize, ret |-> got])
                 /\ IF WriteMismatch(length, got)
                    THEN \* lines 150-156
                         /\ RecvFail
                         /\ UNCHANGED data_offset
                    ELSE LET off == AddU32(wide, data_offset, length) IN
                         /\ data_offset' = off
                         /\ packet' = NULL
                         /\ r_freed' = r_freed + 1
                         /\ IF GeU32(wide, off, ds)
                            THEN \* lines 160-166
                                 /\ return_datasize' = ds
                                 /\ r_pc' = "done"
                                 /\ r_ret' = CSP_ERR_NONE
                                 /\ UNCHANGED error
                            ELSE IF length = 0
                            THEN \* lines 169-175
                                 /\ error' = CSP_ERR_SFP
                                 /\ r_pc' = "done"
                                 /\ r_ret' = CSP_ERR_SFP
                                 /\ UNCHANGED return_datasize
                            ELSE \* line 177
                                 /\ r_pc' = "read_next"
                                 /\ UNCHANGED << error, r_ret, return_datasize >>
    /\ UNCHANGED << svars, chan, faulty, r_last, r_null, r_reads, r_got, r_after >>

\* the loop body over the plain integers of the transfers of Spec
RecvBody == RecvBodyG(FALSE)

\* ------------------------------------------------------------ the channel
\* the connection loses the packet at its head
ChannelDrop ==
    /\ chan # << >>
    /\ chan' = Tail(chan)
    /\ faulty' = TRUE
    /\ UNCHANGED << svars, rvars >>

Next ==
    \/ SendCall
    \/ SendIter
    \/ SendReturn
    \/ RecvCall
    \/ RecvRead
    \/ RecvBody
    \/ ChannelDrop

Spec == Init /\ [][Next]_vars

TypeOK ==
    /\ s_pc \in {"idle", "loop", "done"}
    /\ r_pc \in {"idle", "read_first", "body", "read_next", "done"}
    /\ count \in 0..MaxU32Reached
    /\ totalsize \in 0..MaxU32Reached
    /\ data_offset \in 0..MaxU32Reached
    /\ datasize \in 0..MaxU32Reached
    /\ Len(chan) <= Len(sent)

\* ================================================= the full uint32_t range
\* the values of uint32_t the specification uses
WideValues ==
    {BelowTop32(k) : k \in 0..MaxBelowTop} \cup {Small32(k) : k \in 0..MaxBelowTop}

\* the fragments the connection may deliver late in a long transfer
WidePackets ==
    {[frag |-> TRUE,
      data |-> [i \in 1..len |-> AdvByte(i)] \o htobe32_wide(o) \o htobe32_wide(t)] :
        len \in 0..(CSP_BUFFER_SIZE - SFP_HEADER_SIZE),
        o \in WideValues, t \in WideValues}

\* recv in the middle of a transfer: the first fragment declared datasize
\* bytes, data_offset of them were accepted so far (data_offset < datasize,
\* as after every iteration that reaches line 179), and recv is about to
\* call csp_read.  The logs and counters start here.
InitWide ==
    /\ s_pc = "idle"
    /\ totalsize = 0
    /\ mtu = 0
    /\ seed = 1
    /\ count = 0
    /\ s_ret = NoReturn
    /\ rlog = << >>
    /\ sent = << >>
    /\ idout_frag = FALSE
    /\ s_got = 0
    /\ s_freed = 0
    /\ send_failed = FALSE
    /\ chan = << >>
    /\ faulty = FALSE
    /\ r_pc = "read_next"
    /\ packet = NULL
    /\ datasize \in {BelowTop32(k) : k \in 0..MaxBelowTop}
    /\ data_offset \in {BelowTop32(k) : k \in 0..MaxBelowTop}
    /\ Gt32(datasize, data_offset)
    /\ error = InitialError
    /\ r_ret = NoReturn
    /\ return_datasize = 0
    /\ wlog = << >>
    /\ r_last = NULL
    /\ r_null = FALSE
    /\ r_reads = 0
    /\ r_got = 0
    /\ r_freed = 0
    /\ r_after = FALSE

\* csp_read at line 179
RecvReadWide == RecvReadG(WidePackets)

\* the loop body with uint32_t arithmetic over the full range
RecvBodyWide == RecvBodyG(TRUE)

NextWide ==
    \/ RecvReadWide
    \/ RecvBodyWide

SpecWide == InitWide /\ [][NextWide]_vars

\* ================================================================ claims
\* the bytes the write capability received, as (storage offset, byte) pairs
SinkImage ==
    UNION {{<< wlog[k].offset + i - 1, wlog[k].data[i] >> : i \in 1..Len(wlog[k].data)} :
           k \in 1..Len(wlog)}

\* the bytes the read capability holds for a transfer of n bytes
SourceImage(n) == {<< i, SrcByte(seed, i) >> : i \in 0..(n - 1)}

WritesMatched == \A k \in 1..Len(wlog) : wlog[k].ret = Len(wlog[k].data)

\* send has returned success, then recv was called and has returned, on a
\* channel that lost and added nothing, with a write capability that
\* returned the size it was given
RoundTripRun ==
    /\ s_pc = "done"
    /\ s_ret = CSP_ERR_NONE
    /\ r_after
    /\ ~faulty
    /\ r_pc = "done"
    /\ WritesMatched

RoundTripResult ==
    /\ r_ret = CSP_ERR_NONE
    /\ return_datasize = totalsize
    /\ SinkImage = SourceImage(totalsize)

\* C1 as stated: for every total_size >= 0, 0 included, send followed by
\* recv on a lossless in-order channel gives the write capability exactly
\* the bytes of the read capability, and recv returns success with
\* datasize = total_size.
C1_RoundTripFromZero ==
    RoundTripRun => RoundTripResult

\* C1 amended: the same for every total_size > 0 (with total_size = 0 send
\* hands nothing to the channel and recv returns CSP_ERR_TIMEDOUT).
C1_RoundTrip ==
    (RoundTripRun /\ totalsize > 0) => RoundTripResult

C1_Witness ==
    /\ RoundTripRun
    /\ totalsize = MaxTotal
    /\ mtu = 2
    /\ Len(wlog) >= 2
    /\ r_ret = CSP_ERR_NONE

\* C2: every request to the read capability has size min(mtu, total_size -
\* count), and a send that returns success for total_size > 0 has handed
\* ceil(total_size / mtu) fragments to the channel, all but the last with
\* a payload of exactly mtu bytes.
C2_FragmentCount ==
    /\ \A i \in 1..Len(rlog) :
          rlog[i].size = Min(mtu, totalsize - rlog[i].offset)
    /\ (s_pc = "done" /\ s_ret = CSP_ERR_NONE /\ totalsize > 0) =>
          /\ Len(sent) = (totalsize + mtu - 1) \div mtu
          /\ \A i \in 1..(Len(sent) - 1) :
                Len(sent[i].data) - SFP_HEADER_SIZE = mtu

\* the step is the loop body of recv acting on the packet it holds
RecvBodyStep == r_pc = "body" /\ r_pc' # "body"

\* recv returns CSP_ERR_SFP in this step and does not call user->write
RejectedUnwritten ==
    /\ r_pc' = "done"
    /\ r_ret' = CSP_ERR_SFP
    /\ wlog' = wlog
    /\ data_offset' = data_offset

\* once recv has returned, the write capability is not called again
NoWriteAfterReturn == (r_pc = "done") => (r_pc' = "done" /\ wlog' = wlog)

\* C3: a fragment whose trailer offset differs from data_offset makes recv
\* return CSP_ERR_SFP, and user->write is called neither for it nor later.
C3_OrderingEnforced ==
    [][/\ (RecvBodyStep /\ Len(packet.data) >= SFP_HEADER_SIZE
             /\ TrailerOffset(packet) # data_offset) => RejectedUnwritten
       /\ NoWriteAfterReturn]_vars

C3_Witness ==
    /\ r_pc = "done"
    /\ r_ret = CSP_ERR_SFP
    /\ r_last # NULL
    /\ r_last.frag
    /\ Len(r_last.data) > SFP_HEADER_SIZE
    /\ TrailerOffset(r_last) <= TrailerTotal(r_last)
    /\ TrailerOffset(r_last) # data_offset
    /\ Len(wlog) >= 1
    /\ WritesMatched

\* C4: a fragment whose payload is empty once the 8-byte trailer is removed
\* makes recv return CSP_ERR_SFP without a call of user->write, wherever in
\* the transfer it arrives.
C4_ZeroLengthRejected ==
    [][(RecvBodyStep /\ Len(packet.data) = SFP_HEADER_SIZE) => RejectedUnwritten]_vars

C4_Witness ==
    /\ r_pc = "done"
    /\ r_ret = CSP_ERR_SFP
    /\ r_last # NULL
    /\ r_last.frag
    /\ Len(r_last.data) = SFP_HEADER_SIZE
    /\ TrailerOffset(r_last) = data_offset
    /\ TrailerOffset(r_last) <= TrailerTotal(r_last)
    /\ Len(wlog) >= 1
    /\ WritesMatched

\* C5: a first fragment whose trailer declares total_size = 0 makes recv
\* return CSP_ERR_SFP without a call of user->write, whatever its payload
\* length.
C5_ZeroTotalRejected ==
    [][(RecvBodyStep /\ r_got = 1 /\ Len(packet.data) >= SFP_HEADER_SIZE
          /\ TrailerTotal(packet) = 0) => RejectedUnwritten]_vars

C5_Witness ==
    /\ r_pc = "done"
    /\ r_ret = CSP_ERR_SFP
    /\ r_got = 1
    /\ r_last # NULL
    /\ r_last.frag
    /\ Len(r_last.data) > SFP_HEADER_SIZE
    /\ TrailerOffset(r_last) = 0
    /\ TrailerTotal(r_last) = 0
    /\ wlog = << >>

\* C6: once send is called with mtu = 0 or mtu > CSP_BUFFER_SIZE - 8 it has
\* returned CSP_ERR_INVAL with no buffer allocated, no call of user->read
\* and nothing handed to the channel, whatever total_size is; any other
\* mtu, CSP_BUFFER_SIZE - 8 included, does not give CSP_ERR_INVAL.
C6_MtuPrecondition ==
    (s_pc # "idle") =>
        IF mtu = 0 \/ mtu > CSP_BUFFER_SIZE - SFP_HEADER_SIZE
        THEN /\ s_pc = "done"
             /\ s_ret = CSP_ERR_INVAL
             /\ s_got = 0
             /\ rlog = << >>
             /\ sent = << >>
             /\ ~idout_frag
        ELSE s_ret # CSP_ERR_INVAL

C6_Witness ==
    /\ s_pc = "done"
    /\ s_ret = CSP_ERR_INVAL
    /\ mtu = CSP_BUFFER_SIZE - SFP_HEADER_SIZE + 1
    /\ totalsize > 0

\* C7: recv returns CSP_ERR_TIMEDOUT exactly when its last csp_read
\* returned no message (for the first fragment or a later one), and then
\* the reported datasize is 0.
C7_Timeout ==
    (r_pc = "done") =>
        /\ (r_ret = CSP_ERR_TIMEDOUT) <=> r_null
        /\ (r_ret = CSP_ERR_TIMEDOUT) => (return_datasize = 0)

C7_Witness ==
    /\ r_pc = "done"
    /\ r_ret = CSP_ERR_TIMEDOUT
    /\ r_null
    /\ Len(wlog) >= 1
    /\ return_datasize = 0

\* C8: a call of user->read that returns a value other than the requested
\* size is the last one; send has returned CSP_ERR_SFP, the buffer of
\* that iteration was freed and not sent, and the fragments sent are those
\* of the earlier iterations.
C8_ReadMismatch ==
    \A i \in 1..Len(rlog) :
        (rlog[i].ret # rlog[i].size) =>
            /\ i = Len(rlog)
            /\ s_pc = "done"
            /\ s_ret = CSP_ERR_SFP
            /\ s_freed = 1
            /\ Len(sent) = i - 1
            /\ \A j \in 1..(i - 1) :
                  /\ TrailerOffset(sent[j]) = rlog[j].offset
                  /\ Len(sent[j].data) - SFP_HEADER_SIZE = rlog[j].size

C8_Witness ==
    /\ s_pc = "done"
    /\ s_ret = CSP_ERR_SFP
    /\ Len(rlog) >= 2
    /\ rlog[Len(rlog)].ret # rlog[Len(rlog)].size
    /\ Len(sent) = Len(rlog) - 1

\* C9: a call of user->write that returns a value other than the payload
\* length is the last one; recv has returned CSP_ERR_SFP with data_offset
\* not advanced, no further packet obtained and a reported datasize of 0.
C9_WriteMismatch ==
    \A i \in 1..Len(wlog) :
        (wlog[i].ret # Len(wlog[i].data)) =>
            /\ i = Len(wlog)
            /\ r_pc = "done"
            /\ r_ret = CSP_ERR_SFP
            /\ data_offset = wlog[i].offset
            /\ r_got = i
            /\ return_datasize = 0

C9_Witness ==
    /\ r_pc = "done"
    /\ r_ret = CSP_ERR_SFP
    /\ Len(wlog) >= 2
    /\ wlog[Len(wlog)].ret # Len(wlog[Len(wlog)].data)
    /\ data_offset = wlog[Len(wlog)].offset

\* C10: every iteration of the send loop that hands a fragment over
\* increases count, never past total_size, and a send that returns success
\* ends with count = total_size.
C10_SendTerminates ==
    [][/\ (s_pc = "loop" /\ Len(sent') = Len(sent) + 1) =>
             (count' > count /\ count' <= totalsize)
       /\ (s_pc = "loop" /\ s_pc' = "done" /\ s_ret' = CSP_ERR_NONE) =>
             (count = totalsize)]_vars

\* the payload length of a fragment csp_sfp_send handed to csp_send
PayloadLen(p) == Len(p.data) - SFP_HEADER_SIZE

\* the sum of the payload lengths of the first n fragments sent
RECURSIVE SentBytes(_)
SentBytes(n) == IF n = 0 THEN 0 ELSE SentBytes(n - 1) + PayloadLen(sent[n])

\* C11: the fragments of one send call are handed over in strictly
\* increasing offset order; each trailer offset is the sum of the payload
\* lengths handed over before (0 for the first) and the storage offset
\* passed to user->read for it, and each trailer carries the total_size
\* argument.
C11_FramingOrder ==
    /\ \A i \in 1..Len(sent) :
          /\ TrailerOffset(sent[i]) = SentBytes(i - 1)
          /\ TrailerOffset(sent[i]) = rlog[i].offset
          /\ TrailerTotal(sent[i]) = totalsize
    /\ \A i \in 1..(Len(sent) - 1) :
          TrailerOffset(sent[i]) < TrailerOffset(sent[i + 1])

\* C12: send called with total_size = 0 and a valid mtu returns success at
\* once: no buffer allocated, no call of user->read, nothing handed to the
\* channel, CSP_FFRAG not set in the outgoing flags.
C12_EmptyTransfer ==
    (s_pc # "idle" /\ totalsize = 0 /\ mtu > 0
        /\ mtu <= CSP_BUFFER_SIZE - SFP_HEADER_SIZE) =>
        /\ s_pc = "done" => s_ret = CSP_ERR_NONE
        /\ s_got = 0
        /\ rlog = << >>
        /\ sent = << >>
        /\ chan = << >>
        /\ ~idout_frag

C12_Witness ==
    /\ s_pc = "done"
    /\ s_ret = CSP_ERR_NONE
    /\ totalsize = 0
    /\ mtu = CSP_BUFFER_SIZE - SFP_HEADER_SIZE
    /\ sent = << >>

\* user->write was called in this step and returned the size it was given
WriteAccepted ==
    /\ Len(wlog') = Len(wlog) + 1
    /\ wlog'[Len(wlog')].ret = Len(wlog'[Len(wlog')].data)

\* C13: datasize, once set from the first fragment's total_size, never
\* changes, whatever total_size later fragments carry; the loop body
\* returns success exactly when data_offset has reached or passed it, and
\* the datasize then reported is the first fragment's total_size.
C13_FixedExpectedTotal ==
    [][/\ (datasize # 0) => (datasize' = datasize)
       /\ (Len(wlog') >= 1) => (datasize' = wlog'[1].totalsize)
       /\ RecvBodyStep =>
             /\ (r_ret' = CSP_ERR_NONE) <=>
                   (WriteAccepted /\ data_offset' >= datasize')
             /\ (r_ret' = CSP_ERR_NONE) =>
                   /\ r_pc' = "done"
                   /\ return_datasize' = wlog'[1].totalsize]_vars

C13_Witness ==
    /\ r_pc = "done"
    /\ r_ret = CSP_ERR_NONE
    /\ Len(wlog) >= 2
    /\ wlog[2].totalsize # wlog[1].totalsize
    /\ return_datasize = wlog[1].totalsize
    /\ data_offset >= datasize

\* the sum of the payload lengths of the first n calls of user->write
RECURSIVE WrittenBytes(_)
WrittenBytes(n) == IF n = 0 THEN 0 ELSE WrittenBytes(n - 1) + Len(wlog[n].data)

\* C14: every call of user->write gets the running data_offset as storage
\* offset and the running expected total (the total_size of the first
\* fragment) as total size, also when the trailer of the current fragment
\* carries another total_size.
C14_WriteArguments ==
    \A i \in 1..Len(wlog) :
        /\ wlog[i].offset = WrittenBytes(i - 1)
        /\ wlog[i].totalsize = datasize

\* C15: when csp_send failed for a fragment, send does not return success.
C15_SendFailurePropagates ==
    (s_pc = "done" /\ send_failed) => (s_ret # CSP_ERR_NONE)

\* C16: recv holds at most one packet; every packet it obtained (from
\* csp_read or as first_packet) is freed exactly once, before the next
\* csp_read and before recv returns, on every exit path.
C16_RecvOwnership ==
    /\ r_freed <= r_got
    /\ r_got - r_freed = (IF packet = NULL THEN 0 ELSE 1)
    /\ (r_pc = "body") <=> (packet # NULL)
    /\ (r_pc \in {"read_next", "done"}) => (r_freed = r_got)

C16_Witness ==
    /\ r_pc = "done"
    /\ r_ret = CSP_ERR_SFP
    /\ r_got >= 2
    /\ r_freed = r_got
    /\ packet = NULL

\* C17: every buffer send allocated was either handed to csp_send once or
\* freed once (after a mismatching read), send holds none between
\* iterations and none when it has returned, whatever it returns.
C17_SendOwnership ==
    /\ s_got = Len(sent) + s_freed
    /\ Len(rlog) = s_got
    /\ s_freed = Cardinality({i \in 1..Len(rlog) : rlog[i].ret # rlog[i].size})
    /\ Len(sent) = Cardinality({i \in 1..Len(rlog) : rlog[i].ret = rlog[i].size})

C17_Witness ==
    /\ s_pc = "done"
    /\ s_ret = CSP_ERR_SFP
    /\ s_freed = 1
    /\ Len(sent) >= 1
    /\ s_got = Len(sent) + 1

\* the three cases in which the trailer of p does not decode
Malformed(p) ==
    \/ ~p.frag
    \/ Len(p.data) < SFP_HEADER_SIZE
    \/ TrailerOffset(p) > TrailerTotal(p)

\* C18: the trailer of a packet does not decode exactly when the packet
\* lacks the fragment flag, is shorter than 8 bytes or has offset >
\* total_size; recv then returns CSP_ERR_SFP without a call of user->write.
\* In every other case the payload that validation continues with, and that
\* user->write gets, is the packet's data less its last 8 bytes.
C18_MalformedTrailer ==
    [][RecvBodyStep =>
          IF Malformed(packet)
          THEN /\ csp_sfp_header_remove(packet).hdr = NULL
               /\ RejectedUnwritten
          ELSE /\ csp_sfp_header_remove(packet).hdr # NULL
               /\ Len(csp_sfp_header_remove(packet).pkt.data)
                     = Len(packet.data) - SFP_HEADER_SIZE
               /\ (Len(wlog') = Len(wlog) + 1) =>
                     (wlog'[Len(wlog')].data
                         = SubSeq(packet.data, 1, Len(packet.data) - SFP_HEADER_SIZE))]_vars

C18_Witness ==
    /\ r_pc = "done"
    /\ r_ret = CSP_ERR_SFP
    /\ r_last # NULL
    /\ r_last.frag
    /\ Len(r_last.data) > SFP_HEADER_SIZE
    /\ TrailerOffset(r_last) > TrailerTotal(r_last)
    /\ TrailerOffset(r_last) = data_offset
    /\ Len(wlog) >= 1
    /\ WritesMatched

\* C19: every call of user->write has offset + size <= expected total, and
\* when recv has returned success the bytes passed to user->write add up
\* to the reported datasize.
C19_SinkBounds ==
    /\ \A i \in 1..Len(wlog) :
          wlog[i].offset + Len(wlog[i].data) <= datasize
    /\ (r_pc = "done" /\ r_ret = CSP_ERR_NONE) =>
          (WrittenBytes(Len(wlog)) = return_datasize)

\* C20: every fragment recv accepts increases data_offset by at least 1,
\* so recv has returned once the accepted bytes reach the expected total:
\* recv goes on to the next csp_read only with a data_offset that is larger
\* than before and still below datasize.
C20_RecvTerminates ==
    [][(r_pc = "body" /\ WriteAccepted) =>
          /\ Gt32(data_offset', data_offset)
          /\ (r_pc' = "read_next") => Gt32(datasize', data_offset')]_vars
====
